---- MODULE Spec2Model ----
(***************************************************************************)
(* VBASeismograph: detection of VBA stomping by comparing the identifiers, *)
(* literal strings and comments of the p-code disassembly of an Office     *)
(* document with its decompressed VBA source.                              *)
(*                                                                         *)
(* Two scripts are modelled: vba_seismograph.py (Python 2, regex-based     *)
(* identifier scan, in-process olevba) and vba_seismograph3.py (Python 3,  *)
(* line-scanner identifier scan, olevba as a subprocess).                  *)
(*                                                                         *)
(* A text is a sequence of one-character strings.  A missing-fraction is   *)
(* the pair <<number missing, number of items>> (<<0, 1>> for 0.0 of an    *)
(* empty set), compared exactly: for the small sets considered the         *)
(* correctly rounded float quotient k/n compares with the literals 0.5,    *)
(* 0.3 and 0.1 exactly as the rational k/n does with 5/10, 3/10 and 1/10.  *)
(***************************************************************************)
EXTENDS Integers, Sequences, FiniteSets, TLC

\* --------------------------------------------------------------- characters

NL == "\n"
TAB == "\t"
CR == "\r"
QUOTE == "\""
APOS == "'"
BACKSLASH == "\\"

\* str.isalnum() of one character.
Alnum ==
    {"a","b","c","d","e","f","g","h","i","j","k","l","m","n","o","p","q","r",
     "s","t","u","v","w","x","y","z",
     "A","B","C","D","E","F","G","H","I","J","K","L","M","N","O","P","Q","R",
     "S","T","U","V","W","X","Y","Z",
     "0","1","2","3","4","5","6","7","8","9"}

isalnum(c) == c \in Alnum

\* The characters str.strip() removes, and the regex class \s.
Whitespace == {" ", TAB, NL, CR, "\f"}

Digits == {"0","1","2","3","4","5","6","7","8","9"}

\* ------------------------------------------------------------ str methods

startswith(s, p) == Len(p) <= Len(s) /\ SubSeq(s, 1, Len(p)) = p

endswith(s, p) == Len(p) <= Len(s) /\ SubSeq(s, Len(s) - Len(p) + 1, Len(s)) = p

\* sub occurs in s at position i (1-based).
OccursAt(s, sub, i) ==
    /\ i >= 1
    /\ i + Len(sub) - 1 <= Len(s)
    /\ SubSeq(s, i, i + Len(sub) - 1) = sub

\* Python's `sub in s`.
Contains(s, sub) == \E i \in 1..(Len(s) + 1) : OccursAt(s, sub, i)

\* 1-based s.index(sub); only used where sub occurs.
IndexOf(s, sub) == CHOOSE i \in 1..(Len(s) + 1) :
                      /\ OccursAt(s, sub, i)
                      /\ \A j \in 1..(i - 1) : ~OccursAt(s, sub, j)

\* 1-based s.rindex(sub); only used where sub occurs.
RIndexOf(s, sub) == CHOOSE i \in 1..(Len(s) + 1) :
                       /\ OccursAt(s, sub, i)
                       /\ \A j \in (i + 1)..(Len(s) + 1) : ~OccursAt(s, sub, j)

\* s[i:] with i a 0-based Python offset.
From(s, i) == SubSeq(s, i + 1, Len(s))

RECURSIVE lstripSet(_, _)
lstripSet(s, cs) ==
    IF s /= <<>> /\ Head(s) \in cs THEN lstripSet(Tail(s), cs) ELSE s

RECURSIVE rstripSet(_, _)
rstripSet(s, cs) ==
    IF s /= <<>> /\ s[Len(s)] \in cs
    THEN rstripSet(SubSeq(s, 1, Len(s) - 1), cs)
    ELSE s

\* s.strip() and s.strip(chars).
stripSet(s, cs) == rstripSet(lstripSet(s, cs), cs)
strip(s) == stripSet(s, Whitespace)

\* s.split(sep) for a non-empty separator: a sequence of texts.
RECURSIVE split(_, _)
split(s, sep) ==
    IF Contains(s, sep)
    THEN LET i == IndexOf(s, sep)
         IN  <<SubSeq(s, 1, i - 1)>> \o split(SubSeq(s, i + Len(sep), Len(s)), sep)
    ELSE <<s>>

\* s.replace(old, new) for a one-character old.
RECURSIVE replaceChar(_, _, _)
replaceChar(s, old, new) ==
    IF s = <<>> THEN <<>>
    ELSE (IF Head(s) = old THEN new ELSE <<Head(s)>>) \o replaceChar(Tail(s), old, new)

\* s.replace(old, new) for a non-empty old: leftmost, non-overlapping.
RECURSIVE replace(_, _, _)
replace(s, old, new) ==
    IF s = <<>> THEN <<>>
    ELSE IF startswith(s, old)
         THEN new \o replace(SubSeq(s, Len(old) + 1, Len(s)), old, new)
         ELSE <<Head(s)>> \o replace(Tail(s), old, new)

\* sep.join(parts).
RECURSIVE join(_, _)
join(parts, sep) ==
    IF parts = <<>> THEN <<>>
    ELSE IF Len(parts) = 1 THEN parts[1]
    ELSE parts[1] \o sep \o join(Tail(parts), sep)

\* The concatenation of a sequence of texts.
RECURSIVE Concat(_)
Concat(parts) == IF parts = <<>> THEN <<>> ELSE Head(parts) \o Concat(Tail(parts))

\* ------------------------------------------------- _get_pcode_ids: the scan

\* The value None of `instructions`, and an instruction buffer holding text.
NoInstructions == [none |-> TRUE, text |-> <<>>]
Instructions(text) == [none |-> FALSE, text |-> text]

S_Identifiers == <<"I","d","e","n","t","i","f","i","e","r","s",":">>
S_LineNo == <<"L","i","n","e"," ","#">>
S_B_var == <<"_","B","_","v","a","r","_">>
S_LitStr == <<"L","i","t","S","t","r"," ">>
S_QuoteRem == <<"Q","u","o","t","e","R","e","m"," ">>

\* vba_seismograph3.py: the state of the line scanner before the first line.
ScanInit == [ids |-> {}, in_id_section |-> FALSE, skip |-> FALSE,
             instructions |-> NoInstructions]

\* vba_seismograph3.py: the body of the loop over pcode.split("\n"), one line.
ScanLine_mut(st, line) ==
    IF line = S_Identifiers
    THEN [st EXCEPT !.in_id_section = TRUE]
    ELSE IF startswith(line, S_LineNo) /\ st.instructions.none
         THEN [st EXCEPT !.instructions = Instructions(<<>>)]
    ELSE IF ~st.instructions.none
         THEN [st EXCEPT !.instructions = Instructions(@.text \o line \o <<NL>>)]
    ELSE IF st.in_id_section
         THEN IF Contains(line, <<":">>)
              THEN [st EXCEPT !.ids = @ \cup {strip(From(line, IndexOf(line, <<":">>)))}]
              ELSE [st EXCEPT !.in_id_section = FALSE]
    ELSE st
ScanLine(st, line) ==
    IF st.skip THEN [st EXCEPT !.skip = FALSE]
    ELSE IF line = S_Identifiers
         THEN [st EXCEPT !.in_id_section = TRUE, !.skip = TRUE]
    ELSE IF startswith(line, S_LineNo) /\ st.instructions.none
         THEN [st EXCEPT !.instructions = Instructions(<<>>)]
    ELSE IF ~st.instructions.none
         THEN [st EXCEPT !.instructions = Instructions(@.text \o line \o <<NL>>)]
    ELSE IF st.in_id_section
         THEN IF Contains(line, <<":">>)
              THEN [st EXCEPT !.ids = @ \cup {strip(From(line, IndexOf(line, <<":">>)))}]
              ELSE [st EXCEPT !.in_id_section = FALSE]
    ELSE st

RECURSIVE ScanLines(_, _)
ScanLines(st, lines) ==
    IF lines = <<>> THEN st ELSE ScanLines(ScanLine(st, Head(lines)), Tail(lines))

\* vba_seismograph3.py: the identifier table and the instruction buffer of a
\* disassembly, [ids, instructions].
scan3(pcode) ==
    LET st == ScanLines(ScanInit, split(pcode, <<NL>>))
    IN  [ids |-> st.ids, instructions |-> st.instructions]

\* vba_seismograph.py: the character class [0-9|A-F] of id_regex.
IdIndexChars == Digits \cup {"|", "A", "B", "C", "D", "E", "F"}

\* vba_seismograph.py: a line that id_regex matches from its start (the
\* newline before it is the first character of the match).
IsIdLine(line) ==
    /\ Len(line) >= 6
    /\ \A k \in 1..4 : line[k] \in IdIndexChars
    /\ line[5] = ":" /\ line[6] = " "

\* vba_seismograph.py: ids = set(m.split(": ")[1] for m in findall(id_regex)).
\* A match needs a newline before it, so the first line never matches.
ids2(pcode) ==
    LET lines == split(pcode, <<NL>>)
    IN  { split(lines[k], <<":", " ">>)[2] :
            k \in {j \in 2..Len(lines) : IsIdLine(lines[j])} }

\* vba_seismograph.py: the text ends with "Line #" + 1 to 6 digits + ":", so
\* that instruction_regex matches a header ending at the end of this line.
EndsWithLineHeader(line) ==
    \E d \in 1..6 :
        /\ Len(line) >= 7 + d
        /\ line[Len(line)] = ":"
        /\ \A k \in (Len(line) - d)..(Len(line) - 1) : line[k] \in Digits
        /\ SubSeq(line, Len(line) - d - 6, Len(line) - d - 1) = S_LineNo

\* vba_seismograph.py: the number of lines from index k on that "(\t.*\n)*"
\* takes: tab-led lines, each ended by a newline (the last element of the
\* split is not).
RECURSIVE TabRun(_, _)
TabRun(lines, k) ==
    IF k < Len(lines) /\ startswith(lines[k], <<TAB>>)
    THEN 1 + TabRun(lines, k + 1)
    ELSE 0

\* vba_seismograph.py: match.group().replace("\t", "").split(":", 1)[1].strip("\n")
\* of the match whose header is line k and whose tab-led lines are the n next.
BlockText(lines, k, n) ==
    stripSet(<<NL>> \o Concat([j \in 1..n |->
                 replaceChar(lines[k + j], TAB, <<>>) \o <<NL>>]), {NL})

\* vba_seismograph.py: the non-empty block texts of finditer(instruction_regex),
\* scanning the lines from index k on.
RECURSIVE Blocks(_, _)
Blocks(lines, k) ==
    IF k >= Len(lines) THEN <<>>
    ELSE IF EndsWithLineHeader(lines[k])
         THEN LET n == TabRun(lines, k + 1)
                  b == BlockText(lines, k, n)
              IN  (IF Len(b) > 0 THEN <<b>> ELSE <<>>) \o Blocks(lines, k + 1 + n)
         ELSE Blocks(lines, k + 1)

\* vba_seismograph.py: the identifier table and the instruction buffer of a
\* disassembly; the buffer is never None.
scan2(pcode) ==
    [ids |-> ids2(pcode),
     instructions |-> Instructions(join(Blocks(split(pcode, <<NL>>), 1), <<NL>>))]

\* ------------------------------------------- _get_pcode_ids: the noise filter

common_ids ==
    {<<"W","o","r","d">>,
     <<"V","B","A">>,
     <<"W","i","n","1","6">>,
     <<"W","i","n","3","2">>,
     <<"W","i","n","6","4">>,
     <<"M","a","c">>,
     <<"V","B","A","6">>,
     <<"V","B","A","7">>,
     <<"P","r","o","j","e","c","t","1">>,
     <<"s","t","d","o","l","e">>,
     <<"V","B","A","P","r","o","j","e","c","t">>,
     <<"E","x","c","e","l">>,
     <<"P","r","o","j","e","c","t">>,
     <<"T","h","i","s","D","o","c","u","m","e","n","t">>,
     <<"_","E","v","a","l","u","a","t","e">>,
     <<"N","o","r","m","a","l">>,
     <<"O","f","f","i","c","e">>,
     <<"A","d","d">>,
     <<"M","S","F","o","r","m","s">>,
     <<"U","s","e","r","F","o","r","m">>,
     <<"D","o","c","u","m","e","n","t">>}

\* `curr_id in common_ids`.
is_common_mut(curr_id) == FALSE
is_common(curr_id) == curr_id \in common_ids

\* re.findall("." + curr_id + ".", instructions) from position pos on: the
\* matches left to right, each search resuming after the previous match; "."
\* matches any character but a newline.  curr_id holds no regex metacharacter.
RECURSIVE findall(_, _, _)
findall(curr_id, text, pos) ==
    LET n == Len(curr_id) + 2
    IN  IF pos + n - 1 > Len(text) THEN <<>>
        ELSE IF /\ text[pos] /= NL
                /\ OccursAt(text, curr_id, pos + 1)
                /\ text[pos + n - 1] /= NL
             THEN <<SubSeq(text, pos, pos + n - 1)>> \o findall(curr_id, text, pos + n)
             ELSE findall(curr_id, text, pos + 1)

\* The test of one match: non-alphanumeric first and last character.
is_boundary_mut(curr_str) ==
    (~isalnum(curr_str[1])) \/ (~isalnum(curr_str[Len(curr_str)]))
is_boundary(curr_str) ==
    (~isalnum(curr_str[1])) /\ (~isalnum(curr_str[Len(curr_str)]))

\* `keep` after the loop over the matches.
keep(curr_id, text) ==
    LET strs == findall(curr_id, text, 1)
    IN  \E k \in 1..Len(strs) : is_boundary(strs[k])

\* The first test of the filter loop: the identifier is skipped.
skipped(curr_id, instructions) ==
    \/ (~instructions.none) /\ ~Contains(instructions.text, curr_id)
    \/ is_common(curr_id)
    \/ startswith(curr_id, S_B_var)

\* The identifier reaches tmp.add (after its underscores are stripped).
survives(curr_id, instructions) ==
    /\ ~skipped(curr_id, instructions)
    /\ (~instructions.none) => keep(curr_id, instructions.text)

\* The two while loops that strip leading and trailing underscores.
strip_underscores(curr_id) == stripSet(curr_id, {"_"})

\* The filter loop: tmp.
filter_ids(ids, instructions) ==
    { strip_underscores(curr_id) : curr_id \in {i \in ids : survives(i, instructions)} }

\* _get_pcode_ids of the two scripts.
get_pcode_ids3(pcode) ==
    LET p == scan3(pcode) IN filter_ids(p.ids, p.instructions)

get_pcode_ids2(pcode) ==
    LET p == scan2(pcode) IN filter_ids(p.ids, p.instructions)

\* ------------------------------------------------ missing-fractions

\* num_missing / len(items), and 0.0 for an empty set: <<missing, items>>.
fraction_mut(num_missing, n) == IF n = 0 THEN <<1, 1>> ELSE <<num_missing, n>>
fraction(num_missing, n) == IF n = 0 THEN <<0, 1>> ELSE <<num_missing, n>>

\* ---------------------------------------------------------- _missing_ids

\* `curr_id not in vba` is false.
id_present_mut(curr_id, text) == startswith(text, curr_id)
id_present(curr_id, text) == Contains(text, curr_id)

missing_ids(text, ids) ==
    fraction(Cardinality({i \in ids : ~id_present(i, text)}), Cardinality(ids))

\* ---------------------------------------- _get_pcode_strs, _missing_strs

\* line[line.index('"') + 1 : -1] of a line that holds a double quote.
after_first_quote(line) == SubSeq(line, IndexOf(line, <<QUOTE>>) + 1, Len(line) - 1)

\* The literal strings of the LitStr lines; line.index raises ValueError on a
\* LitStr line without a double quote: [raised, value].
get_pcode_strs(pcode) ==
    LET lines == split(pcode, <<NL>>)
        lit == {strip(lines[k]) : k \in {j \in 1..Len(lines) :
                                           startswith(strip(lines[j]), S_LitStr)}}
    IN  IF \E l \in lit : ~Contains(l, <<QUOTE>>)
        THEN [raised |-> TRUE, value |-> {}]
        ELSE [raised |-> FALSE,
              value |-> {replaceChar(after_first_quote(l), QUOTE, <<QUOTE, QUOTE>>) : l \in lit}]

\* Neither '"' + curr_str + '"' nor "'" + curr_str + "'" is missing from vba.
str_present_mut(curr_str, text) == Contains(text, curr_str)
str_present_mut_dq(curr_str, text) == Contains(text, <<QUOTE>> \o curr_str \o <<QUOTE>>)
str_present(curr_str, text) ==
    \/ Contains(text, <<QUOTE>> \o curr_str \o <<QUOTE>>)
    \/ Contains(text, <<APOS>> \o curr_str \o <<APOS>>)

missing_strs(text, strs) ==
    fraction(Cardinality({s \in strs : ~str_present(s, text)}), Cardinality(strs))

\* -------------------------------- _get_pcode_comments, _missing_comments

\* The comment of one QuoteRem line: a text ending with "_" is replaced by
\* curr_str[-1], its last character.
comment_of(line) ==
    LET curr_str == after_first_quote(line)
    IN  IF endswith(curr_str, <<"_">>) THEN <<curr_str[Len(curr_str)]>> ELSE curr_str

\* The comments of the QuoteRem lines; line.index raises ValueError on a
\* QuoteRem line without a double quote: [raised, value].
get_pcode_comments(pcode) ==
    LET lines == split(pcode, <<NL>>)
        rem == {strip(lines[k]) : k \in {j \in 1..Len(lines) :
                                           startswith(strip(lines[j]), S_QuoteRem)}}
    IN  IF \E l \in rem : ~Contains(l, <<QUOTE>>)
        THEN [raised |-> TRUE, value |-> {}]
        ELSE [raised |-> FALSE, value |-> {comment_of(l) : l \in rem}]

\* The characters the chain of pat.replace calls puts a backslash before.
Escaped == {BACKSLASH, "(", ")", "[", "]", "+", "^", ".", "$", "?", "*", ",", "|"}

\* The chain of pat.replace calls: apostrophes become spaces, then each
\* escaped character gets a backslash (the backslash itself first, so no
\* later replacement touches an inserted backslash); "}" is replaced twice,
\* the second time inside the "\}" the first replacement wrote.
RECURSIVE escape(_)
escape(s) ==
    IF s = <<>> THEN <<>>
    ELSE (IF Head(s) = APOS THEN <<" ">>
          ELSE IF Head(s) = "}" THEN <<BACKSLASH, BACKSLASH, "}">>
          ELSE IF Head(s) \in Escaped THEN <<BACKSLASH, Head(s)>>
          ELSE <<Head(s)>>) \o escape(Tail(s))

\* pat.split(" ") without its empty pieces: the words of the pattern.
RECURSIVE nonempty(_)
nonempty(parts) ==
    IF parts = <<>> THEN <<>>
    ELSE (IF Len(Head(parts)) = 0 THEN <<>> ELSE <<Head(parts)>>) \o nonempty(Tail(parts))

pattern_words(curr_str) == nonempty(split(escape(curr_str), <<" ">>))

\* The text a word of the pattern matches: a backslash makes the next
\* character literal, every other character of the texts considered is literal.
RECURSIVE regex_literal(_)
regex_literal(w) ==
    IF w = <<>> THEN <<>>
    ELSE IF Head(w) = BACKSLASH /\ Len(w) >= 2
         THEN <<w[2]>> \o regex_literal(SubSeq(w, 3, Len(w)))
         ELSE <<Head(w)>> \o regex_literal(Tail(w))

\* The class [\s\r\n'] and the bounds of its repetition {1,50}.
SepClass == Whitespace \cup {APOS}
SepMin == 1
SepMax == 50

\* words[k..] match the text from position p on, joined by SepMin..SepMax
\* separator characters.
RECURSIVE match_words(_, _, _, _)
match_words(words, k, text, p) ==
    LET w == regex_literal(words[k])
        q == p + Len(w)
    IN  /\ OccursAt(text, w, p)
        /\ \/ k = Len(words)
           \/ \E n \in SepMin..SepMax :
                /\ q + n - 1 <= Len(text)
                /\ \A j \in q..(q + n - 1) : text[j] \in SepClass
                /\ match_words(words, k + 1, text, q + n)

\* re.search(pat, vba, re.MULTILINE) is not None.
search(words, text) ==
    \/ words = <<>>
    \/ \E p \in 1..Len(text) : match_words(words, 1, text, p)

\* The comment is not counted as missing.
comment_present(curr_str, text) ==
    Contains(text, curr_str) \/ search(pattern_words(curr_str), text)

missing_comments(text, comments) ==
    fraction(Cardinality({c \in comments : ~comment_present(c, text)}),
             Cardinality(comments))

\* ------------------------------------------ detect_stomping_via_pcode

VARIABLES
    script,                 \* which of the two scripts runs
    sensitivity,            \* the sensitivity argument
    pc,                     \* the position in the function
    invoked,                \* the external steps run so far
    failed,                 \* the external steps that failed or gave no text
    unzipped,               \* a temporary unzipped copy exists
    pcode,                  \* the p-code disassembly text
    vba,                    \* the VBA source text
    threshold,              \* <<>> while unbound, <<tenths>> once assigned
    pcode_ids, pct_missing_ids,
    pcode_strs, pct_missing_strs,
    pcode_comments, pct_missing_comments,
    stomped,
    result,                 \* how the call ended
    retval,                 \* the value returned
    scanned                 \* ids and instructions of _get_pcode_ids after its scan

vars == <<script, sensitivity, pc, invoked, failed, unzipped, pcode, vba, threshold,
          pcode_ids, pct_missing_ids, pcode_strs, pct_missing_strs,
          pcode_comments, pct_missing_comments, stomped, result, retval, scanned>>

\* The locals ids and instructions of _get_pcode_ids before it is called.
NotScanned == [ids |-> {}, instructions |-> NoInstructions]

Scripts == {"vba_seismograph", "vba_seismograph3"}

\* The sensitivities the code names, and one it does not.
ValidSensitivities == {"low", "medium", "high"}
Sensitivities == ValidSensitivities \cup {"extreme"}

\* The if / elif chain that assigns threshold, in tenths; no branch assigns
\* for another sensitivity.
threshold_of_mut(s) ==
    IF s = "low" THEN <<1>> ELSE IF s = "medium" THEN <<3>>
    ELSE IF s = "high" THEN <<5>> ELSE <<>>
threshold_of(s) ==
    IF s = "low" THEN <<5>> ELSE IF s = "medium" THEN <<3>>
    ELSE IF s = "high" THEN <<1>> ELSE <<>>

\* `pct_missing > threshold` with threshold t tenths.
exceeds_mut(pct, t) == pct[1] * 10 >= t * pct[2]
exceeds(pct, t) == pct[1] * 10 > t * pct[2]

\* The identifier table and instruction buffer the running script scans.
scan(scr, text) == IF scr = "vba_seismograph3" THEN scan3(text) ELSE scan2(text)

\* _get_pcode_ids of the running script.
get_pcode_ids(scr, text) ==
    IF scr = "vba_seismograph3" THEN get_pcode_ids3(text) ELSE get_pcode_ids2(text)

\* vba_seismograph3.py: the two vba.replace calls after olevba's output is
\* decoded: carriage returns removed, then "_\n" replaced by "\n".
normalize(text) == replace(replaceChar(text, CR, <<>>), <<"_", NL>>, <<NL>>)

\* The disassemblies pcodedmp yields in this model: an identifier table and
\* up to MaxLines instruction lines.
MaxLines == 2

DocHeader == <<"I","d","e","n","t","i","f","i","e","r","s",":","\n","\n","0","0","0","1",":"," ","F","o","o","\n","0","0","0","2",":"," ","B","a","r","\n","0","0","0","3",":"," ","W","o","r","d","\n","\n","L","i","n","e"," ","#","0",":","\n">>

InstrLines ==
    {<<"\t","L","d"," ","F","o","o"," ">>,
     <<"\t","L","d"," ","B","a","r"," ">>,
     <<"\t","L","i","t","S","t","r"," ","0","x","0","0","0","3"," ","\"","a","b","c","\"">>,
     <<"\t","L","i","t","S","t","r"," ","0","x","0","0","0","2"," ","\"","x","y","\"">>,
     <<"\t","Q","u","o","t","e","R","e","m"," ","0","x","0","0","0","0"," ","0","x","0","0","0","3"," ","\"","a"," ","b","\"">>,
     <<"\t","Q","u","o","t","e","R","e","m"," ","0","x","0","0","0","0"," ","0","x","0","0","0","3"," ","\"","c"," ","d","\"">>}

LineSeqs == UNION {[1..n -> InstrLines] : n \in 0..MaxLines}

Doc(lines) == DocHeader \o Concat([k \in 1..Len(lines) |-> lines[k] \o <<NL>>])

PcodeTexts == {Doc(ls) : ls \in LineSeqs}

\* The source texts olevba yields in this model.
VbaTexts ==
    {<<>>,
     <<"S","u","b"," ","F","o","o","(",")","\n","\"","a","b","c","\""," ","'"," ","a"," ","b","\n">>,
     <<"F","o","o"," ","B","a","r"," ","\"","a","b","c","\""," ","'","x","y","'","\n","'"," ","a","\n","'"," ","b","\n","'"," ","c"," ","d","\n">>,
     <<"S","u","b"," ","F","o","o","(",")"," ","_","\r","\n"," ","B","a","r"," ","\"","x","y","\"","\r","\n">>,
     <<"B","a","r"," ","c"," ","d"," ","a","b","c">>}

Init ==
    /\ script \in Scripts
    /\ sensitivity \in Sensitivities
    /\ pc = "unzip"
    /\ invoked = {}
    /\ failed = {}
    /\ unzipped = FALSE
    /\ pcode = <<>>
    /\ vba = <<>>
    /\ threshold = <<>>
    /\ pcode_ids = {} /\ pct_missing_ids = <<0, 1>>
    /\ pcode_strs = {} /\ pct_missing_strs = <<0, 1>>
    /\ pcode_comments = {} /\ pct_missing_comments = <<0, 1>>
    /\ stomped = FALSE
    /\ result = "running"
    /\ retval = "none"
    /\ scanned = NotScanned

\* The call ends by raising exc.
Raise(exc) == pc' = "done" /\ result' = exc /\ retval' = "none"

\* filename = _unzip_office_doc(filename): the file is analysed as it is, or
\* a temporary unzipped vbaProject.bin is, or ValueError is raised.
Unzip ==
    /\ pc = "unzip"
    /\ invoked' = invoked \cup {"unzip"}
    /\ \/ /\ unzipped' \in BOOLEAN
          /\ pc' = "pcodedmp"
          /\ UNCHANGED <<failed, result, retval>>
       \/ /\ unzipped' = FALSE
          /\ failed' = failed \cup {"unzip"}
          /\ Raise("ValueError")
    /\ UNCHANGED <<scanned, script, sensitivity, pcode, vba, threshold, pcode_ids,
                   pct_missing_ids, pcode_strs, pct_missing_strs, pcode_comments,
                   pct_missing_comments, stomped>>

\* The pcodedmp.py subprocess: its output, or ValueError.
RunPcodedmp ==
    /\ pc = "pcodedmp"
    /\ invoked' = invoked \cup {"pcodedmp"}
    /\ \/ /\ pcode' \in PcodeTexts
          /\ pc' = "olevba"
          /\ UNCHANGED <<failed, result, retval>>
       \/ /\ pcode' = pcode
          /\ failed' = failed \cup {"pcodedmp"}
          /\ Raise("ValueError")
    /\ UNCHANGED <<scanned, script, sensitivity, unzipped, vba, threshold, pcode_ids,
                   pct_missing_ids, pcode_strs, pct_missing_strs, pcode_comments,
                   pct_missing_comments, stomped>>

\* olevba.  vba_seismograph3.py: the output of the subprocess, normalised, or
\* ValueError.  vba_seismograph.py: the joined code of the macros; on the
\* ProcessingError of a wiped source ('NoneType' ... 'splitlines') the
\* function returns "", on any other exception it raises ValueError.
RunOlevba ==
    /\ pc = "olevba"
    /\ invoked' = invoked \cup {"olevba"}
    /\ \/ /\ \E text \in VbaTexts :
                vba' = IF script = "vba_seismograph3" THEN normalize(text) ELSE text
          /\ pc' = "threshold"
          /\ UNCHANGED <<failed, result, retval>>
       \/ /\ vba' = vba
          /\ failed' = failed \cup {"olevba"}
          /\ Raise("ValueError")
       \/ /\ script = "vba_seismograph"
          /\ vba' = vba
          /\ failed' = failed \cup {"olevba"}
          /\ pc' = "done" /\ result' = "returned" /\ retval' = "empty_string"
    /\ UNCHANGED <<scanned, script, sensitivity, unzipped, pcode, threshold, pcode_ids,
                   pct_missing_ids, pcode_strs, pct_missing_strs, pcode_comments,
                   pct_missing_comments, stomped>>

\* The if / elif chain on sensitivity.
SetThreshold ==
    /\ pc = "threshold"
    /\ threshold' = threshold_of(sensitivity)
    /\ pc' = "ids"
    /\ UNCHANGED <<scanned, script, sensitivity, invoked, failed, unzipped, pcode, vba, pcode_ids,
                   pct_missing_ids, pcode_strs, pct_missing_strs, pcode_comments,
                   pct_missing_comments, stomped, result, retval>>

\* pcode_ids, pct_missing_ids and the first comparison with threshold, which
\* raises UnboundLocalError when no branch assigned threshold.
CheckIds ==
    /\ pc = "ids"
    /\ scanned' = scan(script, pcode)
    /\ pcode_ids' = get_pcode_ids(script, pcode)
    /\ pct_missing_ids' = missing_ids(vba, pcode_ids')
    /\ IF threshold = <<>>
       THEN /\ Raise("UnboundLocalError")
            /\ stomped' = FALSE
       ELSE /\ stomped' = exceeds(pct_missing_ids', threshold[1])
            /\ pc' = "strs"
            /\ UNCHANGED <<result, retval>>
    /\ UNCHANGED <<script, sensitivity, invoked, failed, unzipped, pcode, vba, threshold,
                   pcode_strs, pct_missing_strs, pcode_comments, pct_missing_comments>>

\* pcode_strs, pct_missing_strs and the second comparison.
CheckStrs ==
    /\ pc = "strs"
    /\ LET strs == get_pcode_strs(pcode)
       IN  IF strs.raised
           THEN /\ Raise("ValueError")
                /\ UNCHANGED <<pcode_strs, pct_missing_strs, stomped>>
           ELSE /\ pcode_strs' = strs.value
                /\ pct_missing_strs' = missing_strs(vba, pcode_strs')
                /\ stomped' = IF exceeds(pct_missing_strs', threshold[1])
                              THEN TRUE ELSE stomped
                /\ pc' = "comments"
                /\ UNCHANGED <<result, retval>>
    /\ UNCHANGED <<scanned, script, sensitivity, invoked, failed, unzipped, pcode, vba, threshold,
                   pcode_ids, pct_missing_ids, pcode_comments, pct_missing_comments>>

\* pcode_comments, pct_missing_comments and the third comparison.
CheckComments ==
    /\ pc = "comments"
    /\ LET comments == get_pcode_comments(pcode)
       IN  IF comments.raised
           THEN /\ Raise("ValueError")
                /\ UNCHANGED <<pcode_comments, pct_missing_comments, stomped>>
           ELSE /\ pcode_comments' = comments.value
                /\ pct_missing_comments' = missing_comments(vba, pcode_comments')
                /\ stomped' = IF exceeds(pct_missing_comments', threshold[1])
                              THEN TRUE ELSE stomped
                /\ pc' = "cleanup"
                /\ UNCHANGED <<result, retval>>
    /\ UNCHANGED <<scanned, script, sensitivity, invoked, failed, unzipped, pcode, vba, threshold,
                   pcode_ids, pct_missing_ids, pcode_strs, pct_missing_strs>>

\* _cleanup_office_doc and `return stomped`.
Return ==
    /\ pc = "cleanup"
    /\ unzipped' = FALSE
    /\ pc' = "done"
    /\ result' = "returned"
    /\ retval' = IF stomped THEN "True" ELSE "False"
    /\ UNCHANGED <<scanned, script, sensitivity, invoked, failed, pcode, vba, threshold, pcode_ids,
                   pct_missing_ids, pcode_strs, pct_missing_strs, pcode_comments,
                   pct_missing_comments, stomped>>

Next ==
    \/ Unzip
    \/ RunPcodedmp
    \/ RunOlevba
    \/ SetThreshold
    \/ CheckIds
    \/ CheckStrs
    \/ CheckComments
    \/ Return

Spec == Init /\ [][Next]_vars

\* The __main__ block: what the command line prints for the outcome of
\* is_vba_stomped; only ValueError is caught.
cli_message(res, val) ==
    IF res = "returned"
    THEN IF val = "True" THEN "WARNING: VBA stomped" ELSE "NOT VBA stomped"
    ELSE IF res = "ValueError" THEN "ERROR" ELSE "traceback"

\* ------------------------------------------------ _get_pcode_ids alone

\* Number of fragments of a generated instruction text or source text.
MaxFrags == 3
\* Number of items of a generated identifier table or item set.
MaxItems == 2

\* The identifier tables: up to MaxItems identifiers of IdPool, each on its
\* own line after a 4-character index.
\* The table lines of the identifiers of `ids`, in the order of IdOrder, line
\* k of the order with index 000k.
IdOrder == <<<<"F","o","o">>, <<"W","o","r","d">>, <<"_","F","o","o">>>>

IdIndex(k) == <<"0", "0", "0">> \o <<<<"1", "2", "3", "4", "5", "6", "7", "8", "9">>[k]>>
              \o <<":", " ">>

RECURSIVE TableLines(_, _)
TableLines(ids, k) ==
    IF k > Len(IdOrder) THEN <<>>
    ELSE (IF IdOrder[k] \in ids THEN IdIndex(k) \o IdOrder[k] \o <<NL>> ELSE <<>>)
         \o TableLines(ids, k + 1)

IdPool == {IdOrder[k] : k \in 1..Len(IdOrder)}

Tables == {t \in SUBSET IdPool : Cardinality(t) <= MaxItems}

\* The instruction texts: up to MaxFrags fragments on tab-led lines.
InstrFrags ==
    {<<" ","F","o","o">>, <<"a","F","o","o">>, <<"_","F","o","o">>, <<" ">>,
     <<"\n","\t">>, <<"W","o","r","d">>}

FragSeqs(frags) == UNION {[1..n -> frags] : n \in 0..MaxFrags}

\* A disassembly: the table, then, with a header, the instruction text.
FilterDoc(table, header, frags) ==
    <<"I","d","e","n","t","i","f","i","e","r","s",":","\n","\n">> \o TableLines(table, 1) \o <<NL>>
    \o (IF header
        THEN <<"L","i","n","e"," ","#","0",":","\n","\t">> \o Concat(frags) \o <<NL>>
        ELSE <<>>)

\* The variables a specification does not use.
Idle(names) ==
    /\ "sensitivity" \in names => sensitivity = "medium"
    /\ "script" \in names => script = "vba_seismograph3"
    /\ invoked = {}
    /\ failed = {}
    /\ unzipped = FALSE
    /\ "pcode" \in names => pcode = <<>>
    /\ "vba" \in names => vba = <<>>
    /\ threshold = <<>>
    /\ "ids" \in names => pcode_ids = {}
    /\ pct_missing_ids = <<0, 1>>
    /\ "items" \in names => (pcode_strs = {} /\ pcode_comments = {})
    /\ pct_missing_strs = <<0, 1>>
    /\ pct_missing_comments = <<0, 1>>
    /\ stomped = FALSE
    /\ result = "running"
    /\ retval = "none"
    /\ scanned = NotScanned

InitFilter ==
    /\ script \in Scripts
    /\ \E table \in Tables, header \in BOOLEAN, frags \in FragSeqs(InstrFrags) :
          pcode = FilterDoc(table, header, frags)
    /\ pc = "filter"
    /\ Idle({"sensitivity", "vba", "ids", "items"})

\* pcode_ids = _get_pcode_ids(pcode).
GetPcodeIds ==
    /\ pc = "filter"
    /\ scanned' = scan(script, pcode)
    /\ pcode_ids' = get_pcode_ids(script, pcode)
    /\ pc' = "filtered"
    /\ UNCHANGED <<script, sensitivity, invoked, failed, unzipped, pcode, vba, threshold,
                   pct_missing_ids, pcode_strs, pct_missing_strs, pcode_comments,
                   pct_missing_comments, stomped, result, retval>>

NextFilter == GetPcodeIds

SpecFilter == InitFilter /\ [][NextFilter]_vars

\* ------------------------------- _missing_ids, _missing_strs, _missing_comments alone

\* The item sets: up to MaxItems items of ItemPool, taken as identifiers, as
\* literal strings and as comments.
ItemPool == {<<>>, <<"a">>, <<"b">>, <<"a"," ","b">>, <<" ">>, <<"'">>}

ItemSets == {t \in SUBSET ItemPool : Cardinality(t) <= MaxItems}

\* The source texts: up to MaxFrags fragments.
SrcFrags == {<<"a">>, <<"b">>, <<" ">>, <<"\n">>, <<"\"">>, <<"'">>}

InitMatch ==
    /\ \E items \in ItemSets :
          pcode_ids = items /\ pcode_strs = items /\ pcode_comments = items
    /\ \E frags \in FragSeqs(SrcFrags) : vba = Concat(frags)
    /\ pc = "match_ids"
    /\ Idle({"sensitivity", "script", "pcode"})

\* pct_missing_ids = _missing_ids(vba, pcode_ids).
MissingIds ==
    /\ pc = "match_ids"
    /\ pct_missing_ids' = missing_ids(vba, pcode_ids)
    /\ pc' = "match_strs"
    /\ UNCHANGED <<scanned, script, sensitivity, invoked, failed, unzipped, pcode, vba, threshold,
                   pcode_ids, pcode_strs, pct_missing_strs, pcode_comments,
                   pct_missing_comments, stomped, result, retval>>

\* pct_missing_strs = _missing_strs(vba, pcode_strs).
MissingStrs ==
    /\ pc = "match_strs"
    /\ pct_missing_strs' = missing_strs(vba, pcode_strs)
    /\ pc' = "match_comments"
    /\ UNCHANGED <<scanned, script, sensitivity, invoked, failed, unzipped, pcode, vba, threshold,
                   pcode_ids, pct_missing_ids, pcode_strs, pcode_comments,
                   pct_missing_comments, stomped, result, retval>>

\* pct_missing_comments = _missing_comments(vba, pcode_comments).
MissingComments ==
    /\ pc = "match_comments"
    /\ pct_missing_comments' = missing_comments(vba, pcode_comments)
    /\ pc' = "matched"
    /\ UNCHANGED <<scanned, script, sensitivity, invoked, failed, unzipped, pcode, vba, threshold,
                   pcode_ids, pct_missing_ids, pcode_strs, pct_missing_strs,
                   pcode_comments, stomped, result, retval>>

NextMatch ==
    \/ MissingIds
    \/ MissingStrs
    \/ MissingComments

SpecMatch == InitMatch /\ [][NextMatch]_vars

\* --------------------------- _get_pcode_strs, _get_pcode_comments alone

\* Number of fragments after the opcode of a generated LitStr / QuoteRem line.
MaxBody == 4

\* The fragments of the operand of a generated line.
BodyFrags == {<<QUOTE>>, <<"a">>, <<"_">>, <<" ">>}

Bodies == UNION {[1..n -> BodyFrags] : n \in 0..MaxBody}

\* Two well-formed lines as pcodedmp prints them.
MoreLines == <<"\t","L","i","t","S","t","r"," ","0","x","0","0","0","2"," ","\"","x","y","\"","\n","\t","Q","u","o","t","e","R","e","m"," ","0","x","0","0","0","0"," ","0","x","0","0","0","3"," ","\"","c"," ","d","\"","\n">>

\* A disassembly: a line header, one tab-led line of the opcode and the
\* operand fragments, then, with `more`, the two well-formed lines.
ExtractDoc(op, body, more) ==
    <<"L","i","n","e"," ","#","0",":","\n","\t">> \o op \o Concat(body) \o <<NL>>
    \o (IF more THEN MoreLines ELSE <<>>)

InitExtract ==
    /\ script \in Scripts
    /\ \E op \in {S_LitStr, S_QuoteRem}, body \in Bodies, more \in BOOLEAN :
          pcode = ExtractDoc(op, body, more)
    /\ pc \in {"extract_strs", "extract_comments"}
    /\ Idle({"sensitivity", "vba", "ids", "items"})

\* pcode_strs = _get_pcode_strs(pcode), or the ValueError of line.index.
GetPcodeStrs ==
    /\ pc = "extract_strs"
    /\ LET strs == get_pcode_strs(pcode)
       IN  IF strs.raised
           THEN /\ result' = "ValueError"
                /\ pcode_strs' = pcode_strs
           ELSE /\ result' = "returned"
                /\ pcode_strs' = strs.value
    /\ pc' = "extracted_strs"
    /\ UNCHANGED <<scanned, script, sensitivity, invoked, failed, unzipped, pcode, vba, threshold,
                   pcode_ids, pct_missing_ids, pct_missing_strs, pcode_comments,
                   pct_missing_comments, stomped, retval>>

\* pcode_comments = _get_pcode_comments(pcode), or the ValueError of line.index.
GetPcodeComments ==
    /\ pc = "extract_comments"
    /\ LET comments == get_pcode_comments(pcode)
       IN  IF comments.raised
           THEN /\ result' = "ValueError"
                /\ pcode_comments' = pcode_comments
           ELSE /\ result' = "returned"
                /\ pcode_comments' = comments.value
    /\ pc' = "extracted_comments"
    /\ UNCHANGED <<scanned, script, sensitivity, invoked, failed, unzipped, pcode, vba, threshold,
                   pcode_ids, pct_missing_ids, pcode_strs, pct_missing_strs,
                   pct_missing_comments, stomped, retval>>

NextExtract ==
    \/ GetPcodeStrs
    \/ GetPcodeComments

SpecExtract == InitExtract /\ [][NextExtract]_vars

\* ------------------------------------------------ _missing_comments alone

\* The comments: up to MaxItems of CommentPool.
CommentPool ==
    {<<"a"," ","b">>, <<"a"," ","}">>, <<"a","'","b">>, <<"b">>, <<>>}

CommentSets == {t \in SUBSET CommentPool : Cardinality(t) <= MaxItems}

\* SepMax newlines, the longest run the separator of the pattern takes.
Gap == [k \in 1..SepMax |-> NL]

\* The source texts: up to MaxFrags fragments, one of them the word b after
\* SepMax newlines.
CommentSrcFrags ==
    {<<"a">>, <<"b">>, <<" ">>, <<NL>>, <<"}">>, Gap \o <<"b">>}

InitComments ==
    /\ pcode_comments \in CommentSets
    /\ \E frags \in FragSeqs(CommentSrcFrags) : vba = Concat(frags)
    /\ pc = "match_comments"
    /\ pcode_ids = {} /\ pcode_strs = {}
    /\ Idle({"sensitivity", "script", "pcode"})

NextComments == MissingComments

SpecComments == InitComments /\ [][NextComments]_vars

\* -------------------------------- the loops over sets, element by element

\* The orders in which `for x in s` may enumerate the set s: each element
\* once.
Orders(s) ==
    {o \in [1..Cardinality(s) -> s] : \A i, j \in 1..Cardinality(s) : o[i] = o[j] => i = j}

\* One pass of the filter loop: `continue`, or tmp.add of the stripped
\* identifier.
add_id_mut(tmp, curr_id, instructions) ==
    IF survives(curr_id, instructions) THEN {strip_underscores(curr_id)} ELSE tmp
add_id(tmp, curr_id, instructions) ==
    IF survives(curr_id, instructions) THEN tmp \cup {strip_underscores(curr_id)} ELSE tmp

\* `for curr_id in ids` of _get_pcode_ids, enumerating ids in the given order.
RECURSIVE filter_loop(_, _, _)
filter_loop(order, instructions, tmp) ==
    IF order = <<>> THEN tmp
    ELSE filter_loop(Tail(order), instructions, add_id(tmp, Head(order), instructions))

\* The test of one pass of a matcher loop: the item is not counted missing.
present(kind, item, text) ==
    IF kind = "ids" THEN id_present(item, text)
    ELSE IF kind = "strs" THEN str_present(item, text)
    ELSE comment_present(item, text)

\* The loop of _missing_ids / _missing_strs / _missing_comments, enumerating
\* the set in the given order: num_missing after the loop.
RECURSIVE missing_loop(_, _, _, _)
missing_loop(kind, order, text, num_missing) ==
    IF order = <<>> THEN num_missing
    ELSE missing_loop(kind, Tail(order), text,
                      IF present(kind, Head(order), text)
                      THEN num_missing ELSE num_missing + 1)

\* The disassemblies of PcodeTexts and, for each table, one whose
\* instruction text names Foo and _Foo.
OrderTexts ==
    PcodeTexts \cup
    {FilterDoc(t, h, <<<<" ","F","o","o">>, <<" ">>, <<"_","F","o","o">>, <<" ">>>>) :
        t \in Tables, h \in BOOLEAN}

InitOrder ==
    /\ script \in Scripts
    /\ sensitivity \in ValidSensitivities
    /\ pcode \in OrderTexts
    /\ \E text \in VbaTexts :
          vba = IF script = "vba_seismograph3" THEN normalize(text) ELSE text
    /\ threshold = threshold_of(sensitivity)
    /\ pc = "loop_ids"
    /\ invoked = {} /\ failed = {} /\ unzipped = FALSE
    /\ pcode_ids = {} /\ pct_missing_ids = <<0, 1>>
    /\ pcode_strs = {} /\ pct_missing_strs = <<0, 1>>
    /\ pcode_comments = {} /\ pct_missing_comments = <<0, 1>>
    /\ stomped = FALSE
    /\ result = "running"
    /\ retval = "none"
    /\ scanned = NotScanned

\* _get_pcode_ids and _missing_ids with their loops, and the comparison.
LoopIds ==
    /\ pc = "loop_ids"
    /\ scanned' = scan(script, pcode)
    /\ \E order \in Orders(scanned'.ids) :
          pcode_ids' = filter_loop(order, scanned'.instructions, {})
    /\ \E order \in Orders(pcode_ids') :
          pct_missing_ids' = fraction(missing_loop("ids", order, vba, 0), Len(order))
    /\ stomped' = exceeds(pct_missing_ids', threshold[1])
    /\ pc' = "loop_strs"
    /\ UNCHANGED <<script, sensitivity, invoked, failed, unzipped, pcode, vba, threshold,
                   pcode_strs, pct_missing_strs, pcode_comments, pct_missing_comments,
                   result, retval>>

\* _get_pcode_strs, _missing_strs with its loop, and the comparison.
LoopStrs ==
    /\ pc = "loop_strs"
    /\ LET strs == get_pcode_strs(pcode)
       IN  IF strs.raised
           THEN /\ Raise("ValueError")
                /\ UNCHANGED <<pcode_strs, pct_missing_strs, stomped>>
           ELSE /\ pcode_strs' = strs.value
                /\ \E order \in Orders(pcode_strs') :
                      pct_missing_strs' =
                          fraction(missing_loop("strs", order, vba, 0), Len(order))
                /\ stomped' = IF exceeds(pct_missing_strs', threshold[1])
                              THEN TRUE ELSE stomped
                /\ pc' = "loop_comments"
                /\ UNCHANGED <<result, retval>>
    /\ UNCHANGED <<scanned, script, sensitivity, invoked, failed, unzipped, pcode, vba, threshold,
                   pcode_ids, pct_missing_ids, pcode_comments, pct_missing_comments>>

\* _get_pcode_comments, _missing_comments with its loop, the comparison and
\* `return stomped`.
LoopComments ==
    /\ pc = "loop_comments"
    /\ LET comments == get_pcode_comments(pcode)
       IN  IF comments.raised
           THEN /\ Raise("ValueError")
                /\ UNCHANGED <<pcode_comments, pct_missing_comments, stomped>>
           ELSE /\ pcode_comments' = comments.value
                /\ \E order \in Orders(pcode_comments') :
                      pct_missing_comments' =
                          fraction(missing_loop("comments", order, vba, 0), Len(order))
                /\ stomped' = IF exceeds(pct_missing_comments', threshold[1])
                              THEN TRUE ELSE stomped
                /\ pc' = "done"
                /\ result' = "returned"
                /\ retval' = IF stomped' THEN "True" ELSE "False"
    /\ UNCHANGED <<scanned, script, sensitivity, invoked, failed, unzipped, pcode, vba, threshold,
                   pcode_ids, pct_missing_ids, pcode_strs, pct_missing_strs>>

NextOrder ==
    \/ LoopIds
    \/ LoopStrs
    \/ LoopComments

SpecOrder == InitOrder /\ [][NextOrder]_vars

\* --------------------------------------- the scan of _get_pcode_ids alone

\* Number of lines of a generated disassembly.
MaxScan == 4

\* The lines of a generated disassembly: the table header, a blank line, two
\* table lines, a line header, and an instruction line with and without its
\* leading tab.
ScanLinePool ==
    {S_Identifiers,
     <<>>,
     <<"0","0","0","1",":"," ","F","o","o">>,
     <<"0","0","0","2",":"," ","B","a","r">>,
     <<"L","i","n","e"," ","#","0",":">>,
     <<"\t","L","d"," ","F","o","o"," ">>,
     <<"L","d"," ","B","a","r"," ">>}

\* A disassembly of the given lines, each ended by a newline.
ScanDoc(lines) == Concat([k \in 1..Len(lines) |-> lines[k] \o <<NL>>])

InitScan ==
    /\ script \in Scripts
    /\ \E n \in 0..MaxScan : \E lines \in [1..n -> ScanLinePool] : pcode = ScanDoc(lines)
    /\ pc = "filter"
    /\ Idle({"sensitivity", "vba", "ids", "items"})

NextScan == GetPcodeIds

SpecScan == InitScan /\ [][NextScan]_vars

\* ------------------------- _get_pcode_ids on identifiers with underscores

\* The table identifiers, in the order of their table lines: identifiers
\* with an underscore before or after a name, and a denylisted name.
AffixOrder ==
    <<<<"F","o","o","_">>, <<"_","V","B","A">>, <<"W","o","r","d","_">>, <<"W","o","r","d">>>>

RECURSIVE AffixTableLines(_, _)
AffixTableLines(ids, k) ==
    IF k > Len(AffixOrder) THEN <<>>
    ELSE (IF AffixOrder[k] \in ids THEN IdIndex(k) \o AffixOrder[k] \o <<NL>> ELSE <<>>)
         \o AffixTableLines(ids, k + 1)

AffixTables ==
    {t \in SUBSET {AffixOrder[k] : k \in 1..Len(AffixOrder)} : Cardinality(t) <= MaxItems}

\* The fragments of the instruction text: each identifier between spaces.
AffixFrags == {<<" ">> \o AffixOrder[k] \o <<" ">> : k \in 1..Len(AffixOrder)}

\* A disassembly: the table, then, with a header, the instruction text.
AffixDoc(table, header, frags) ==
    <<"I","d","e","n","t","i","f","i","e","r","s",":","\n","\n">> \o AffixTableLines(table, 1) \o <<NL>>
    \o (IF header
        THEN <<"L","i","n","e"," ","#","0",":","\n","\t","L","d">> \o Concat(frags) \o <<NL>>
        ELSE <<>>)

InitAffix ==
    /\ script \in Scripts
    /\ \E table \in AffixTables, header \in BOOLEAN, frags \in FragSeqs(AffixFrags) :
          pcode = AffixDoc(table, header, frags)
    /\ pc = "filter"
    /\ Idle({"sensitivity", "vba", "ids", "items"})

NextAffix == GetPcodeIds

SpecAffix == InitAffix /\ [][NextAffix]_vars

\* ------------------------------------------------------------- claims

\* The verdict of the aggregator for texts on which no extractor raises: the
\* three comparisons of detect_stomping_via_pcode, any of which sets stomped.
verdict(scr, ptext, vtext, s) ==
    LET t == threshold_of(s)[1]
    IN  \/ exceeds(missing_ids(vtext, get_pcode_ids(scr, ptext)), t)
        \/ exceeds(missing_strs(vtext, get_pcode_strs(ptext).value), t)
        \/ exceeds(missing_comments(vtext, get_pcode_comments(ptext).value), t)

\* The run returned the aggregator's verdict.
Decided == pc = "done" /\ result = "returned" /\ retval \in {"True", "False"}

\* The thresholds the specification states, in tenths.
StatedThreshold(s) == IF s = "low" THEN 5 ELSE IF s = "medium" THEN 3 ELSE 1

\* The fraction <<k, n>> is strictly greater than t tenths.
Above(pct, t) == pct[1] * 10 > t * pct[2]

\* C1: with a sensitivity of low, medium or high the run returns stomped =
\* true if and only if at least one of the three missing-fractions is
\* strictly greater than the threshold of the sensitivity (0.5, 0.3, 0.1); a
\* fraction equal to the threshold does not flag, one category is enough.
C1_StompedIffAnyAbove ==
    (Decided /\ sensitivity \in ValidSensitivities) =>
        /\ stomped <=> \/ Above(pct_missing_ids, StatedThreshold(sensitivity))
                       \/ Above(pct_missing_strs, StatedThreshold(sensitivity))
                       \/ Above(pct_missing_comments, StatedThreshold(sensitivity))
        /\ retval = (IF stomped THEN "True" ELSE "False")

\* A run at sensitivity low whose identifier fraction is exactly one half and
\* which is not flagged.
C1_Witness ==
    /\ Decided
    /\ sensitivity = "low"
    /\ pct_missing_ids = <<1, 2>>
    /\ ~stomped

\* C2: threshold monotonicity.  For the texts of a run that is flagged at
\* sensitivity low the verdict at medium is stomped, and for the texts of a
\* run that is flagged at medium the verdict at high is stomped.
C2_ThresholdMonotonicity ==
    (Decided /\ stomped) =>
        /\ sensitivity = "low" => verdict(script, pcode, vba, "medium")
        /\ sensitivity = "medium" => verdict(script, pcode, vba, "high")
        /\ sensitivity = "low" => verdict(script, pcode, vba, "high")

\* A run flagged at sensitivity low.
C2_Witness == Decided /\ stomped /\ sensitivity = "low"

\* C3: a sensitivity other than low, medium, high is reported before any
\* extraction step (unzip, p-code disassembler, source decompressor) runs.
C3_InvalidSensitivityBeforeExtraction ==
    sensitivity \notin ValidSensitivities => invoked = {}

\* C4: when an extraction step fails or gives no usable text, the run ends in
\* ValueError and returns no value: the caller reads no stomped / not-stomped
\* answer.
C4_ExtractionFailureIsValueError ==
    (pc = "done" /\ failed /= {}) =>
        /\ result = "ValueError"
        /\ retval = "none"
        /\ cli_message(result, retval) = "ERROR"

\* C5: a category whose set of extracted items is empty has missing-fraction
\* 0.0 whatever the source text, and its comparison does not set stomped: a
\* flagged run has a non-empty category whose fraction is above the threshold.
C5_EmptyCategoryNeverFlags ==
    /\ missing_ids(vba, {}) = <<0, 1>>
    /\ missing_strs(vba, {}) = <<0, 1>>
    /\ missing_comments(vba, {}) = <<0, 1>>
    /\ (pc \in {"strs", "comments", "cleanup"} \/ Decided) =>
          /\ pcode_ids = {} => (pct_missing_ids[1] = 0 /\ (pc = "strs" => ~stomped))
          /\ (pc /= "strs" /\ pcode_strs = {}) => pct_missing_strs[1] = 0
          /\ (pc \notin {"strs", "comments"} /\ pcode_comments = {}) =>
                pct_missing_comments[1] = 0
    /\ (Decided /\ stomped) =>
          \/ pcode_ids /= {} /\ Above(pct_missing_ids, StatedThreshold(sensitivity))
          \/ pcode_strs /= {} /\ Above(pct_missing_strs, StatedThreshold(sensitivity))
          \/ pcode_comments /= {}
             /\ Above(pct_missing_comments, StatedThreshold(sensitivity))

\* A run at sensitivity high over a non-empty source in which no identifier
\* and no literal string is extracted, flagged by its comments alone.
C5_Witness ==
    /\ Decided
    /\ sensitivity = "high"
    /\ vba /= <<>>
    /\ pcode_ids = {} /\ pcode_strs = {} /\ pcode_comments /= {}
    /\ stomped

\* The item occurs in the text between two double quotes or two apostrophes.
Quoted(item, text) ==
    \/ Contains(text, <<QUOTE>> \o item \o <<QUOTE>>)
    \/ Contains(text, <<APOS>> \o item \o <<APOS>>)

\* The fraction is 0.0, and the fraction is 1.0.
IsZero(pct) == pct[1] = 0
IsOne(pct) == pct[1] = pct[2]

\* C6 as stated: when every item is a substring of the source text, the
\* missing-fraction of each of the three categories is 0.0.
C6_Original ==
    (pc = "matched" /\ \A i \in pcode_ids : Contains(vba, i)) =>
        /\ IsZero(pct_missing_ids)
        /\ IsZero(pct_missing_strs)
        /\ IsZero(pct_missing_comments)

\* C6 amended: when every identifier is a substring of the source text the
\* identifier fraction is 0.0, when every comment is a substring of it the
\* comment fraction is 0.0, and when every literal string occurs in it
\* between two double quotes or between two apostrophes the string fraction
\* is 0.0.
C6_SubstringItemsNotMissing ==
    pc = "matched" =>
        /\ (\A i \in pcode_ids : Contains(vba, i)) => IsZero(pct_missing_ids)
        /\ (\A c \in pcode_comments : Contains(vba, c)) => IsZero(pct_missing_comments)
        /\ (\A t \in pcode_strs : Quoted(t, vba)) => IsZero(pct_missing_strs)

\* A non-empty item set, one item not at the start of the source, all items
\* substrings of it and all quoted in it: the three fractions are 0.0.
C6_Witness ==
    /\ pc = "matched"
    /\ pcode_ids /= {}
    /\ \E i \in pcode_ids : i /= <<>> /\ ~startswith(vba, i)
    /\ \A i \in pcode_ids : Contains(vba, i) /\ Quoted(i, vba)
    /\ IsZero(pct_missing_ids) /\ IsZero(pct_missing_strs)
    /\ IsZero(pct_missing_comments)

\* C7 as stated: against the empty source text every non-empty item set,
\* also one holding the empty string, has missing-fraction 1.0 in each of
\* the three categories.
C7_Original ==
    (pc = "matched" /\ vba = <<>> /\ pcode_ids /= {}) =>
        /\ IsOne(pct_missing_ids)
        /\ IsOne(pct_missing_strs)
        /\ IsOne(pct_missing_comments)

\* C7 amended: against the empty source text, a non-empty set of literal
\* strings (also one holding the empty string) has fraction 1.0; a non-empty
\* set of identifiers has fraction 1.0 when it does not hold the empty
\* string; a non-empty set of comments has fraction 1.0 when each comment
\* holds a character other than a space and an apostrophe.
C7_EmptySourceAllMissing ==
    (pc = "matched" /\ vba = <<>>) =>
        /\ pcode_strs /= {} => IsOne(pct_missing_strs)
        /\ (pcode_ids /= {} /\ <<>> \notin pcode_ids) => IsOne(pct_missing_ids)
        /\ (pcode_comments /= {}
            /\ \A c \in pcode_comments : \E k \in 1..Len(c) : c[k] \notin {" ", APOS})
              => IsOne(pct_missing_comments)

\* The empty source and two items, one of them the empty string: the
\* literal-string fraction is 1.0 and the identifier fraction is not.
C7_Witness ==
    /\ pc = "matched"
    /\ vba = <<>>
    /\ Cardinality(pcode_strs) = 2 /\ <<>> \in pcode_strs
    /\ IsOne(pct_missing_strs)
    /\ ~IsOne(pct_missing_ids)

\* The identifier occurs in the text with a character before it and a
\* character after it, both non-alphanumeric.
Standalone(curr_id, text) ==
    \E i \in 2..Len(text) :
        /\ OccursAt(text, curr_id, i)
        /\ i + Len(curr_id) <= Len(text)
        /\ ~isalnum(text[i - 1])
        /\ ~isalnum(text[i + Len(curr_id)])

\* C8: a table identifier that is in the denylist is excluded by the noise
\* filter, whether or not it occurs in the instruction text and whether or
\* not there is an instruction text: it never passes the filter, and the
\* returned set is the one the table without its denylisted identifiers gives.
C8_DenylistAlwaysExcluded ==
    pc = "filtered" =>
        \A p \in {scan(script, pcode)} :
            /\ \A i \in p.ids \cap common_ids : ~survives(i, p.instructions)
            /\ pcode_ids =
                 { strip_underscores(i) :
                     i \in {j \in p.ids \ common_ids :
                              /\ ~startswith(j, S_B_var)
                              /\ \/ p.instructions.none
                                 \/ /\ Contains(p.instructions.text, j)
                                    /\ keep(j, p.instructions.text)} }

\* The denylisted Word is in the table and stands alone in the instruction
\* text, beside an identifier that is kept; Word is not returned.
C8_Witness ==
    /\ pc = "filtered"
    /\ \E p \in {scan(script, pcode)} :
          /\ <<"W","o","r","d">> \in p.ids
          /\ ~p.instructions.none
          /\ Standalone(<<"W","o","r","d">>, p.instructions.text)
    /\ <<"W","o","r","d">> \notin pcode_ids
    /\ <<"F","o","o">> \in pcode_ids

\* C9: a table identifier that occurs in the instruction text, and in no
\* occurrence has a non-alphanumeric character both before and after it, is
\* not in the returned set.
C9_EmbeddedOnlyExcluded ==
    pc = "filtered" =>
        \A p \in {scan(script, pcode)} :
            \A i \in p.ids :
                (/\ ~p.instructions.none
                 /\ Contains(p.instructions.text, i)
                 /\ ~Standalone(i, p.instructions.text)) => i \notin pcode_ids

\* Foo is in the table and occurs in the instruction text with a
\* non-alphanumeric character after it but never on both sides.
C9_Witness ==
    /\ pc = "filtered"
    /\ \E p \in {scan(script, pcode)} :
          /\ <<"F","o","o">> \in p.ids
          /\ ~p.instructions.none
          /\ \E i \in 2..Len(p.instructions.text) :
                /\ OccursAt(p.instructions.text, <<"F","o","o">>, i)
                /\ isalnum(p.instructions.text[i - 1])
                /\ i + 3 <= Len(p.instructions.text)
                /\ p.instructions.text[i + 3] = " "
          /\ ~Standalone(<<"F","o","o">>, p.instructions.text)
    /\ <<"F","o","o">> \notin pcode_ids

\* C10: an identifier that occurs in the instruction text, is not in the
\* denylist and does not start with _B_var_ is kept if and only if one of
\* its occurrences (all of them considered) has a non-alphanumeric character
\* on both sides.
C10_KeptIffStandaloneOccurrence ==
    pc = "filtered" =>
        \A p \in {scan(script, pcode)} :
            \A i \in p.ids :
                (/\ ~p.instructions.none
                 /\ Contains(p.instructions.text, i)
                 /\ i \notin common_ids
                 /\ ~startswith(i, S_B_var))
                => (survives(i, p.instructions) <=> Standalone(i, p.instructions.text))

\* C11: when the p-code text holds no `Line #` header, the instruction buffer
\* holds nothing and _get_pcode_ids returns the empty set, whatever the
\* identifier table holds.
C11_NoHeaderEmptySet ==
    (pc = "filtered" /\ ~Contains(pcode, S_LineNo)) => pcode_ids = {}

\* The trimmed lines of the text that begin with the opcode.
OpLines(text, op) ==
    LET lines == split(text, <<NL>>)
    IN  {strip(lines[k]) : k \in {j \in 1..Len(lines) : startswith(strip(lines[j]), op)}}

\* The number of double quotes of the line.
Quotes(line) == Cardinality({k \in 1..Len(line) : line[k] = QUOTE})

\* The text strictly between the first and the last double quote of a line
\* that holds two of them.
Between(line) ==
    SubSeq(line, IndexOf(line, <<QUOTE>>) + 1, RIndexOf(line, <<QUOTE>>) - 1)

\* The text without its final underscore, if it ends with one.
DropFinalUnderscore(t) ==
    IF endswith(t, <<"_">>) THEN SubSeq(t, 1, Len(t) - 1) ELSE t

\* C12: for the QuoteRem lines of the disassembly, the set of stored comments
\* is the set of the texts strictly between the first and the last double
\* quote of each line, a text ending with an underscore stored without that
\* final underscore and with all its earlier characters.  Stated for
\* disassemblies whose QuoteRem lines hold two double quotes and end with
\* the last one.
C12_QuoteRemBetweenQuotes ==
    (/\ pc = "extracted_comments"
     /\ \A l \in OpLines(pcode, S_QuoteRem) : Quotes(l) >= 2 /\ endswith(l, <<QUOTE>>))
    => /\ result = "returned"
       /\ pcode_comments =
            {DropFinalUnderscore(Between(l)) : l \in OpLines(pcode, S_QuoteRem)}

\* C13: for the LitStr lines of the disassembly, the set of stored strings is
\* the set of the texts strictly between the first and the last double quote
\* of each line with every embedded double quote doubled, also when
\* characters follow the last double quote; a LitStr line with fewer than two
\* double quotes adds nothing, and no exception is raised.
C13_LitStrBetweenQuotes ==
    pc = "extracted_strs" =>
        /\ result = "returned"
        /\ pcode_strs =
             {replaceChar(Between(l), QUOTE, <<QUOTE, QUOTE>>) :
                l \in {m \in OpLines(pcode, S_LitStr) : Quotes(m) >= 2}}

\* The words of a comment as the claim states them: the comment split on
\* spaces after its apostrophes are replaced by spaces, empty pieces dropped.
StatedWords(c) == nonempty(split(replaceChar(c, APOS, <<" ">>), <<" ">>))

\* words[k..] occur in the text from position p on, in order, each adjacent
\* pair separated by 1 to 50 characters that are whitespace, carriage
\* return, newline or apostrophe.
RECURSIVE StatedOccur(_, _, _, _)
StatedOccur(words, k, text, p) ==
    LET q == p + Len(words[k])
    IN  /\ OccursAt(text, words[k], p)
        /\ \/ k = Len(words)
           \/ \E n \in 1..50 :
                /\ q + n - 1 <= Len(text)
                /\ \A j \in q..(q + n - 1) : text[j] \in {" ", TAB, NL, CR, "\f", APOS}
                /\ StatedOccur(words, k + 1, text, q + n)

\* The comment is present as the claim states it.
StatedPresent(c, text) ==
    \/ Contains(text, c)
    \/ StatedWords(c) = <<>>
    \/ \E p \in 1..Len(text) : StatedOccur(StatedWords(c), 1, text, p)

\* C14: _missing_comments counts a comment as present if and only if it is a
\* substring of the source text or its words occur in the source in the same
\* order, each adjacent pair separated by 1 to 50 characters of whitespace,
\* carriage return, newline and apostrophe: the fraction returned is the
\* number of comments not present in that sense over the number of comments.
C14_CommentPresentIff ==
    pc = "matched" =>
        pct_missing_comments =
            fraction(Cardinality({c \in pcode_comments : ~StatedPresent(c, vba)}),
                     Cardinality(pcode_comments))

\* C15: determinism.  Whatever the order in which the loops enumerate the
\* identifier, string and comment sets, a run of the core on a p-code text,
\* a source text and a sensitivity ends with the verdict and the three
\* missing-fractions that these inputs alone determine: any two runs on the
\* same inputs agree.
C15_Deterministic ==
    /\ (pc \in {"loop_strs", "loop_comments"} \/ Decided) =>
          /\ pcode_ids = get_pcode_ids(script, pcode)
          /\ pct_missing_ids = missing_ids(vba, pcode_ids)
    /\ (pc = "loop_comments" \/ Decided) =>
          /\ pcode_strs = get_pcode_strs(pcode).value
          /\ pct_missing_strs = missing_strs(vba, pcode_strs)
    /\ Decided =>
          /\ pcode_comments = get_pcode_comments(pcode).value
          /\ pct_missing_comments = missing_comments(vba, pcode_comments)
          /\ stomped = \/ exceeds(pct_missing_ids, threshold_of(sensitivity)[1])
                       \/ exceeds(pct_missing_strs, threshold_of(sensitivity)[1])
                       \/ exceeds(pct_missing_comments, threshold_of(sensitivity)[1])
          /\ retval = (IF stomped THEN "True" ELSE "False")

\* A returned run whose identifier set has two elements, so that the filter
\* loop and the matcher loop each have more than one order, one of the two
\* identifiers missing from the source.
C15_Witness ==
    /\ Decided
    /\ Cardinality(pcode_ids) = 2
    /\ pct_missing_ids = <<1, 2>>

\* C16: _missing_strs counts a literal string as present if and only if the
\* source text holds it between two double quotes or between two
\* apostrophes; a string that occurs in the source without quotes of one
\* kind on both sides counts as missing.  The fraction returned is the number
\* of strings not quoted in the source over the number of strings.
C16_StrPresentIffQuoted ==
    pc = "matched" =>
        /\ pct_missing_strs =
              fraction(Cardinality({s \in pcode_strs : ~Quoted(s, vba)}),
                       Cardinality(pcode_strs))
        /\ \A s \in pcode_strs :
              (pct_missing_strs[1] = 0 => Quoted(s, vba))
              /\ (pct_missing_strs[1] = Cardinality(pcode_strs) => ~Quoted(s, vba))

\* Two strings, one between apostrophes in the source and not between double
\* quotes, the other in the source but not quoted: one of the two is missing.
C16_Witness ==
    /\ pc = "matched"
    /\ pct_missing_strs = <<1, 2>>
    /\ \E s \in pcode_strs : s /= <<>> /\ Contains(vba, s) /\ ~Quoted(s, vba)
    /\ \E t \in pcode_strs :
          /\ Contains(vba, <<APOS>> \o t \o <<APOS>>)
          /\ ~Contains(vba, <<QUOTE>> \o t \o <<QUOTE>>)

\* The line is the header of the identifier table.
IsTableHeader(line) == line = <<"I","d","e","n","t","i","f","i","e","r","s",":">>

\* The trimmed text after the first colon of a line that holds a colon.
AfterColon(line) == strip(SubSeq(line, IndexOf(line, <<":">>) + 1, Len(line)))

\* C17 as stated.  Line k of the text is in the section: a header line h
\* precedes it and every line strictly between h and k holds a colon.
InSectionAsStated(lines, k) ==
    \E h \in 1..(k - 1) :
        /\ IsTableHeader(lines[h])
        /\ \A j \in (h + 1)..(k - 1) : Contains(lines[j], <<":">>)

\* C17 as stated: the identifiers of the table are the trimmed texts after
\* the first colon of the lines of the section that hold a colon; the
\* section starts after the header line and ends at the first line without
\* a colon.
C17_Original ==
    (pc = "filtered" /\ script = "vba_seismograph3") =>
        \A lines \in {split(pcode, <<NL>>)} :
            scanned.ids =
                {AfterColon(lines[k]) :
                    k \in {j \in 1..Len(lines) :
                             /\ Contains(lines[j], <<":">>)
                             /\ ~IsTableHeader(lines[j])
                             /\ InSectionAsStated(lines, j)}}

\* Line k is a header that the scan acts on, and line k is the line after
\* such a header, which the scan skips.
RECURSIVE HeaderAt(_, _), SkippedAt(_, _)
HeaderAt(lines, k) == IsTableHeader(lines[k]) /\ ~SkippedAt(lines, k)
SkippedAt(lines, k) == k > 1 /\ HeaderAt(lines, k - 1)

\* The index of the first line, neither skipped nor a header, that begins
\* with `Line #`: the start of the instruction text (past the end if none).
InstrStart(lines) ==
    LET starts == {k \in 1..Len(lines) :
                     /\ ~SkippedAt(lines, k) /\ ~HeaderAt(lines, k)
                     /\ startswith(lines[k], <<"L","i","n","e"," ","#">>)}
    IN  IF starts = {} THEN Len(lines) + 1
        ELSE CHOOSE k \in starts : \A j \in starts : k <= j

\* Line k is before the instruction text, not skipped and not a header.
Ordinary(lines, k) ==
    ~SkippedAt(lines, k) /\ ~HeaderAt(lines, k) /\ k < InstrStart(lines)

\* C17 amended (vba_seismograph3.py).  Before the first `Line #` line: the
\* line immediately after an `Identifiers:` header is skipped whatever it
\* holds; every other line that holds a colon and follows a header with, the
\* skipped line aside, only colon-holding lines in between contributes the
\* trimmed text after its first colon; the section ends at the first line,
\* other than the skipped one, without a colon, and no later line
\* contributes until another header is seen.  No line from the first
\* `Line #` line on contributes.
C17_TableSectionAfterSkippedLine ==
    (pc = "filtered" /\ script = "vba_seismograph3") =>
        \A lines \in {split(pcode, <<NL>>)} :
            scanned.ids =
                {AfterColon(lines[k]) :
                    k \in {j \in 1..Len(lines) :
                             /\ Ordinary(lines, j)
                             /\ Contains(lines[j], <<":">>)
                             /\ \E h \in 1..(j - 1) :
                                   /\ HeaderAt(lines, h)
                                   /\ \A i \in (h + 1)..(j - 1) :
                                         Ordinary(lines, i) => Contains(lines[i], <<":">>)}}

\* The layout of pcodedmp: the header, a blank line, which is skipped and
\* does not end the section, then two table lines, which contribute Foo and
\* Bar.
C17_Witness ==
    /\ pc = "filtered" /\ script = "vba_seismograph3"
    /\ \E lines \in {split(pcode, <<NL>>)} :
          /\ Len(lines) >= 4
          /\ IsTableHeader(lines[1])
          /\ lines[2] = <<>>
          /\ lines[3] = <<"0","0","0","1",":"," ","F","o","o">>
          /\ lines[4] = <<"0","0","0","2",":"," ","B","a","r">>
    /\ scanned.ids = {<<"F","o","o">>, <<"B","a","r">>}

\* The line is a `Line #<digits>:` header.
IsLineHeader(line) ==
    /\ Len(line) >= 8
    /\ SubSeq(line, 1, 6) = <<"L","i","n","e"," ","#">>
    /\ line[Len(line)] = ":"
    /\ \A k \in 7..(Len(line) - 1) :
          line[k] \in {"0","1","2","3","4","5","6","7","8","9"}

\* The line without its leading tab, if it has one.
WithoutLeadingTab(line) ==
    IF line /= <<>> /\ Head(line) = "\t" THEN Tail(line) ELSE line

\* The non-empty lines that follow a `Line #<digits>:` header and are not
\* such headers, each without its leading tab, in the order of the text.
RECURSIVE StatedBuffer(_, _, _)
StatedBuffer(lines, k, after) ==
    IF k > Len(lines) THEN <<>>
    ELSE IF IsLineHeader(lines[k]) THEN StatedBuffer(lines, k + 1, TRUE)
    ELSE (IF after /\ lines[k] /= <<>> THEN <<WithoutLeadingTab(lines[k])>> ELSE <<>>)
         \o StatedBuffer(lines, k + 1, after)

\* The layout of pcodedmp: every line after the first `Line #<digits>:`
\* header is such a header or starts with a tab (the piece after the last
\* newline aside).
RECURSIVE TabLedAfterHeader(_, _, _)
TabLedAfterHeader(lines, k, after) ==
    \/ k >= Len(lines)
    \/ /\ IsLineHeader(lines[k]) \/ ~after \/ startswith(lines[k], <<"\t">>)
       /\ TabLedAfterHeader(lines, k + 1, after \/ IsLineHeader(lines[k]))

\* C18: after the scan the instruction buffer consists of exactly the lines
\* that follow a `Line #<digits>:` header, each without its leading tab; the
\* header lines and the lines before the first header are not in it.  The
\* non-empty lines of the buffer are compared, for the texts in the layout
\* of pcodedmp; a buffer that was never started counts as holding no line.
C18_InstructionBuffer ==
    (pc = "filtered" /\ TabLedAfterHeader(split(pcode, <<NL>>), 1, FALSE)) =>
        nonempty(split(IF scanned.instructions.none THEN <<>>
                       ELSE scanned.instructions.text, <<NL>>))
        = StatedBuffer(split(pcode, <<NL>>), 1, FALSE)

\* C19: no element of the set returned by _get_pcode_ids is in the denylist,
\* and none starts or ends with an underscore, also when the table
\* identifier has underscores that are stripped after the denylist test.
C19_OutputOutsideDenylist ==
    pc = "filtered" =>
        \A i \in pcode_ids :
            /\ i \notin common_ids
            /\ ~startswith(i, <<"_">>)
            /\ ~endswith(i, <<"_">>)

====
